---- MODULE Spec2Model ----
(***************************************************************************)
(* Paged K-V cache memory manager: the physical block pool (BlockManager,  *)
(* src/block_manager.py) and the per-request block table (Sequence,        *)
(* src/sequence.py), with the fragmentation demo of src/main.py.           *)
(*                                                                         *)
(* A Python list is a TLA+ sequence (index 1 is list index 0).  A Python   *)
(* dict is the sequence of its items in insertion order, each item a       *)
(* record [logical |-> key, physical |-> value].  A call's result is a     *)
(* record whose field err is "none" or the exception the call raises.      *)
(***************************************************************************)
EXTENDS Integers, Sequences, FiniteSets, TLC

\* Bounds of the model.
MaxNumBlocks == 2
MaxBlockSize == 2
NumSeqs == 2
MaxAppend == 3
MaxTokens == 4
FragNumBlocks == 3

\* The demo of main.test_case_2_fragmentation_demo.
SimNumBlocks == 100
SimBlockSize == 16
SimSeq1Tokens == 640
SimSeq2Tokens == 640
SimSeq3Tokens == 480
SimNumSeqs == 4

VARIABLES
    num_blocks,          \* BlockManager.num_blocks
    block_size,          \* BlockManager.block_size
    free_blocks,         \* BlockManager.free_blocks, a list of block indices
    token_count,         \* Sequence.token_count, per sequence object
    block_table,         \* Sequence.block_table, per sequence object
    last,                \* the most recent call and how it returned
    first_free,          \* history: get_num_free_blocks() at the sequence's
                         \* latest allocation into an empty block table
    handed,              \* history: the ids allocate_block has returned since
                         \* construction, kept while nothing else changed the pool
    pc,                  \* interleaved runs: each thread's position
    iter,                \* interleaved runs: position of the loop of free_all_blocks
    physical_block_idx,  \* interleaved runs: the local of append_token
    sim                  \* the demo driver's position and loop counter

vars == <<num_blocks, block_size, free_blocks, token_count, block_table, last,
          first_free, handed, pc, iter, physical_block_idx, sim>>

NoErr == "none"
OutOfBlocks == "RuntimeError: All allocated"
InvalidBlockId == "ValueError: Invalid block index"
DoubleFree == "ValueError: already free"
TokenIndexOutOfRange == "ValueError: Invalid token index"
UnmappedLogicalBlock == "ValueError: Logical block not found"

Seqs == DOMAIN token_count

-----------------------------------------------------------------------------
(* BlockManager *)

\* x in list
InList(xs, x) == \E i \in DOMAIN xs : xs[i] = x

\* A plausible slip: returns the last free block without removing it.
allocate_block_peek(fb) ==
    IF fb = <<>>
    THEN [err |-> OutOfBlocks, ret |-> -1, free |-> fb]
    ELSE [err |-> NoErr, ret |-> fb[Len(fb)], free |-> fb]

\* A plausible slip: the pool refuses to hand out its last block.
allocate_block_keep_one(fb) ==
    IF Len(fb) <= 1
    THEN [err |-> OutOfBlocks, ret |-> -1, free |-> fb]
    ELSE [err |-> NoErr, ret |-> fb[Len(fb)], free |-> SubSeq(fb, 1, Len(fb) - 1)]

\* A plausible slip: a block is handed out only while the two free ids at the
\* end of the list are neighbours.
allocate_block_contiguous(fb) ==
    IF fb = <<>> \/ (Len(fb) >= 2 /\ fb[Len(fb)] - fb[Len(fb) - 1] \notin {-1, 1})
    THEN [err |-> OutOfBlocks, ret |-> -1, free |-> fb]
    ELSE [err |-> NoErr, ret |-> fb[Len(fb)], free |-> SubSeq(fb, 1, Len(fb) - 1)]

\* A plausible slip: the block is taken from the front of the list (pop(0)).
allocate_block_fifo(fb) ==
    IF fb = <<>>
    THEN [err |-> OutOfBlocks, ret |-> -1, free |-> fb]
    ELSE [err |-> NoErr, ret |-> fb[1], free |-> SubSeq(fb, 2, Len(fb))]

\* allocate_block: raise when the list is empty, else free_blocks.pop()
allocate_block(fb) ==
    IF fb = <<>>
    THEN [err |-> OutOfBlocks, ret |-> -1, free |-> fb]
    ELSE [err |-> NoErr, ret |-> fb[Len(fb)], free |-> SubSeq(fb, 1, Len(fb) - 1)]

\* A plausible slip: no double-free check.
free_block_unchecked(fb, nb, block_index) ==
    IF block_index < 0 \/ block_index >= nb
    THEN [err |-> InvalidBlockId, free |-> fb]
    ELSE [err |-> NoErr, free |-> Append(fb, block_index)]

\* A plausible slip: the range check lets the id num_blocks through.
free_block_upper_inclusive(fb, nb, block_index) ==
    IF block_index < 0 \/ block_index > nb
    THEN [err |-> InvalidBlockId, free |-> fb]
    ELSE IF InList(fb, block_index)
         THEN [err |-> DoubleFree, free |-> fb]
         ELSE [err |-> NoErr, free |-> Append(fb, block_index)]

\* free_block: range check, double-free check, then free_blocks.append
free_block(fb, nb, block_index) ==
    IF block_index < 0 \/ block_index >= nb
    THEN [err |-> InvalidBlockId, free |-> fb]
    ELSE IF InList(fb, block_index)
         THEN [err |-> DoubleFree, free |-> fb]
         ELSE [err |-> NoErr, free |-> Append(fb, block_index)]

get_num_free_blocks(fb) == Len(fb)

-----------------------------------------------------------------------------
(* Sequence *)

\* logical_block_idx in self.block_table
HasKey(bt, k) == \E i \in DOMAIN bt : bt[i].logical = k

\* self.block_table[k]
DictGet(bt, k) == bt[CHOOSE i \in DOMAIN bt : bt[i].logical = k].physical

\* self.block_table[k] = v: a new key goes last, an old key keeps its place
DictSet(bt, k, v) ==
    IF HasKey(bt, k)
    THEN [i \in DOMAIN bt |->
            IF bt[i].logical = k THEN [logical |-> k, physical |-> v] ELSE bt[i]]
    ELSE Append(bt, [logical |-> k, physical |-> v])

\* A plausible slip: the token is counted before the block is allocated.
append_token_count_first(tc, bt, fb, bs) ==
    LET logical_block_idx == tc \div bs
        a == allocate_block(fb)
    IN  IF ~HasKey(bt, logical_block_idx)
        THEN IF a.err # NoErr
             THEN [err |-> OutOfBlocks, tc |-> tc + 1, bt |-> bt, free |-> fb]
             ELSE [err |-> NoErr, tc |-> tc + 1,
                   bt |-> DictSet(bt, logical_block_idx, a.ret), free |-> a.free]
        ELSE [err |-> NoErr, tc |-> tc + 1, bt |-> bt, free |-> fb]

\* A plausible slip: a block is allocated for every token.
append_token_always_alloc(tc, bt, fb, bs) ==
    LET a == allocate_block(fb)
    IN  IF a.err # NoErr
        THEN [err |-> OutOfBlocks, tc |-> tc, bt |-> bt, free |-> fb]
        ELSE [err |-> NoErr, tc |-> tc + 1,
              bt |-> Append(bt, [logical |-> Len(bt), physical |-> a.ret]),
              free |-> a.free]

\* A plausible slip: the logical index is taken from the count after the
\* token instead of before it.
append_token_next_index(tc, bt, fb, bs) ==
    LET logical_block_idx == (tc + 1) \div bs
        a == allocate_block(fb)
    IN  IF ~HasKey(bt, logical_block_idx)
        THEN IF a.err # NoErr
             THEN [err |-> OutOfBlocks, tc |-> tc, bt |-> bt, free |-> fb]
             ELSE [err |-> NoErr, tc |-> tc + 1,
                   bt |-> DictSet(bt, logical_block_idx, a.ret), free |-> a.free]
        ELSE [err |-> NoErr, tc |-> tc + 1, bt |-> bt, free |-> fb]

\* append_token: allocate when the token's logical block is not mapped yet,
\* re-raise the pool's RuntimeError with nothing changed, else count the token
append_token(tc, bt, fb, bs) ==
    LET logical_block_idx == tc \div bs
        a == allocate_block(fb)
    IN  IF ~HasKey(bt, logical_block_idx)
        THEN IF a.err # NoErr
             THEN [err |-> OutOfBlocks, tc |-> tc, bt |-> bt, free |-> fb]
             ELSE [err |-> NoErr, tc |-> tc + 1,
                   bt |-> DictSet(bt, logical_block_idx, a.ret), free |-> a.free]
        ELSE [err |-> NoErr, tc |-> tc + 1, bt |-> bt, free |-> fb]

\* A plausible slip: a failing append_tokens undoes the tokens and blocks of
\* the call.
RECURSIVE append_tokens_rollback(_, _, _, _, _)
append_tokens_rollback(tc, bt, fb, bs, num_tokens) ==
    IF num_tokens <= 0
    THEN [err |-> NoErr, tc |-> tc, bt |-> bt, free |-> fb]
    ELSE LET r == append_token(tc, bt, fb, bs)
         IN  IF r.err # NoErr THEN r
             ELSE LET q == append_tokens_rollback(r.tc, r.bt, r.free, bs, num_tokens - 1)
                  IN  IF q.err # NoErr
                      THEN [err |-> q.err, tc |-> tc, bt |-> bt, free |-> fb]
                      ELSE q

\* append_tokens: for _ in range(num_tokens): self.append_token(manager)
RECURSIVE append_tokens(_, _, _, _, _)
append_tokens(tc, bt, fb, bs, num_tokens) ==
    IF num_tokens <= 0
    THEN [err |-> NoErr, tc |-> tc, bt |-> bt, free |-> fb]
    ELSE LET r == append_token(tc, bt, fb, bs)
         IN  IF r.err # NoErr THEN r
             ELSE append_tokens(r.tc, r.bt, r.free, bs, num_tokens - 1)

\* A plausible slip: the quotient and the remainder are swapped.
get_physical_block_swapped(tc, bt, bs, token_index) ==
    LET logical_block_idx == token_index % bs
        offset == token_index \div bs
    IN  IF token_index < 0 \/ token_index >= tc
        THEN [err |-> TokenIndexOutOfRange, ret |-> <<-1, -1>>]
        ELSE IF ~HasKey(bt, logical_block_idx)
             THEN [err |-> UnmappedLogicalBlock, ret |-> <<-1, -1>>]
             ELSE [err |-> NoErr, ret |-> <<DictGet(bt, logical_block_idx), offset>>]

\* get_physical_block: range check, then block_table[token_index // block_size]
\* and token_index % block_size
get_physical_block(tc, bt, bs, token_index) ==
    LET logical_block_idx == token_index \div bs
        offset == token_index % bs
    IN  IF token_index < 0 \/ token_index >= tc
        THEN [err |-> TokenIndexOutOfRange, ret |-> <<-1, -1>>]
        ELSE IF ~HasKey(bt, logical_block_idx)
             THEN [err |-> UnmappedLogicalBlock, ret |-> <<-1, -1>>]
             ELSE [err |-> NoErr, ret |-> <<DictGet(bt, logical_block_idx), offset>>]

get_num_blocks(bt) == Len(bt)

\* The loop of free_all_blocks from item i on: the first failing free_block
\* ends it, the blocks released before stay released.
RECURSIVE free_loop(_, _, _, _)
free_loop(fb, nb, bt, i) ==
    IF i > Len(bt)
    THEN [err |-> NoErr, free |-> fb]
    ELSE LET r == free_block(fb, nb, bt[i].physical)
         IN  IF r.err # NoErr THEN r ELSE free_loop(r.free, nb, bt, i + 1)

\* A plausible slip: the last block of the table is not released.
free_all_blocks_skip_last(tc, bt, fb, nb) ==
    LET r == free_loop(fb, nb, SubSeq(bt, 1, Len(bt) - 1), 1)
    IN  IF r.err # NoErr
        THEN [err |-> r.err, tc |-> tc, bt |-> bt, free |-> r.free]
        ELSE [err |-> NoErr, tc |-> 0, bt |-> <<>>, free |-> r.free]

\* A plausible slip: the table is cleared but the token count is not reset.
free_all_blocks_keep_count(tc, bt, fb, nb) ==
    LET r == free_loop(fb, nb, bt, 1)
    IN  IF r.err # NoErr
        THEN [err |-> r.err, tc |-> tc, bt |-> bt, free |-> r.free]
        ELSE [err |-> NoErr, tc |-> tc, bt |-> <<>>, free |-> r.free]

\* A plausible slip: the token count is reset before the blocks are released.
free_all_blocks_reset_first(tc, bt, fb, nb) ==
    LET r == free_loop(fb, nb, bt, 1)
    IN  IF r.err # NoErr
        THEN [err |-> r.err, tc |-> 0, bt |-> bt, free |-> r.free]
        ELSE [err |-> NoErr, tc |-> 0, bt |-> <<>>, free |-> r.free]

\* free_all_blocks: release every value of the table; the table is cleared and
\* the count reset only when the loop ran to its end
free_all_blocks(tc, bt, fb, nb) ==
    LET r == free_loop(fb, nb, bt, 1)
    IN  IF r.err # NoErr
        THEN [err |-> r.err, tc |-> tc, bt |-> bt, free |-> r.free]
        ELSE [err |-> NoErr, tc |-> 0, bt |-> <<>>, free |-> r.free]

-----------------------------------------------------------------------------
(* State after construction *)

\* list(range(n))
RangeList(n) == [i \in 1..n |-> i - 1]

Call(op, s, arg, err, ret) == [op |-> op, seq |-> s, arg |-> arg, err |-> err, ret |-> ret]

\* BlockManager(num_blocks, block_size, ...) and the Sequence objects
Construct(nb, bs, ids) ==
    /\ num_blocks = nb
    /\ block_size = bs
    /\ free_blocks = RangeList(nb)
    /\ token_count = [s \in ids |-> 0]
    /\ block_table = [s \in ids |-> <<>>]
    /\ last = Call("init", 0, 0, NoErr, -1)
    /\ first_free = [s \in ids |-> -1]
    /\ handed = [open |-> TRUE, ids |-> <<>>]
    /\ pc = [s \in ids |-> "idle"]
    /\ iter = [s \in ids |-> 0]
    /\ physical_block_idx = [s \in ids |-> -1]

Init ==
    /\ \E nb \in 1..MaxNumBlocks, bs \in 1..MaxBlockSize : Construct(nb, bs, 1..NumSeqs)
    /\ sim = [step |-> "none", i |-> 0]

\* What a Sequence call leaves behind.  A run stops growing a sequence at
\* MaxTokens tokens; the demo's sequences have their own lengths.
Effect(s, r) ==
    /\ (sim.step = "none" => r.tc <= MaxTokens)
    /\ token_count' = [token_count EXCEPT ![s] = r.tc]
    /\ block_table' = [block_table EXCEPT ![s] = r.bt]
    /\ free_blocks' = r.free
    /\ UNCHANGED <<num_blocks, block_size, pc, iter, physical_block_idx>>

-----------------------------------------------------------------------------
(* Calls run one at a time *)

AppendToken(s) ==
    LET r == append_token(token_count[s], block_table[s], free_blocks, block_size)
    IN  /\ Effect(s, r)
        /\ last' = Call("append_token", s, 1, r.err, -1)

AppendTokens(s, n) ==
    LET r == append_tokens(token_count[s], block_table[s], free_blocks, block_size, n)
    IN  /\ Effect(s, r)
        /\ last' = Call("append_tokens", s, n, r.err, -1)

FreeAllBlocks(s) ==
    LET r == free_all_blocks(token_count[s], block_table[s], free_blocks, num_blocks)
    IN  /\ Effect(s, r)
        /\ last' = Call("free_all_blocks", s, 0, r.err, -1)

\* No history is kept and the demo is not running.
Quiet == UNCHANGED <<first_free, handed, sim>>

Next ==
    \/ \E s \in Seqs : AppendToken(s) /\ Quiet
    \/ \E s \in Seqs, n \in 0..MaxAppend : AppendTokens(s, n) /\ Quiet
    \/ \E s \in Seqs : FreeAllBlocks(s) /\ Quiet

Spec == Init /\ [][Next]_vars

\* The history variable: the free count seen by the allocation that made a
\* sequence's table non-empty, -1 while the table is empty.
TrackFirstFree ==
    first_free' =
        [s \in Seqs |->
            IF block_table'[s] = <<>> THEN -1
            ELSE IF block_table[s] = <<>> THEN get_num_free_blocks(free_blocks)
            ELSE first_free[s]]

NextHist ==
    \/ \E s \in Seqs : AppendToken(s) /\ TrackFirstFree /\ UNCHANGED <<handed, sim>>
    \/ \E s \in Seqs, n \in 0..MaxAppend :
           AppendTokens(s, n) /\ TrackFirstFree /\ UNCHANGED <<handed, sim>>
    \/ \E s \in Seqs : FreeAllBlocks(s) /\ TrackFirstFree /\ UNCHANGED <<handed, sim>>

SpecHist == Init /\ [][NextHist]_vars

-----------------------------------------------------------------------------
(* One sequence, and a caller that also calls the pool directly *)

AllocateBlock ==
    LET a == allocate_block(free_blocks)
    IN  /\ free_blocks' = a.free
        /\ last' = Call("allocate_block", 0, 0, a.err, a.ret)
        /\ UNCHANGED <<num_blocks, block_size, token_count, block_table,
                       pc, iter, physical_block_idx>>

FreeBlock(block_index) ==
    LET r == free_block(free_blocks, num_blocks, block_index)
    IN  /\ free_blocks' = r.free
        /\ last' = Call("free_block", 0, block_index, r.err, -1)
        /\ UNCHANGED <<num_blocks, block_size, token_count, block_table,
                       pc, iter, physical_block_idx>>

NextDirect ==
    \/ \E s \in Seqs : AppendToken(s) /\ Quiet
    \/ \E s \in Seqs, n \in 0..MaxAppend : AppendTokens(s, n) /\ Quiet
    \/ \E s \in Seqs : FreeAllBlocks(s) /\ Quiet
    \/ AllocateBlock /\ Quiet
    \/ \E block_index \in -1..num_blocks : FreeBlock(block_index) /\ Quiet

InitDirect ==
    /\ \E nb \in 1..MaxNumBlocks, bs \in 1..MaxBlockSize : Construct(nb, bs, {1})
    /\ sim = [step |-> "none", i |-> 0]

SpecDirect == InitDirect /\ [][NextDirect]_vars

-----------------------------------------------------------------------------
(* The same caller, with the pool's allocation history kept *)

GetNumFreeBlocks ==
    /\ last' = Call("get_num_free_blocks", 0, 0, NoErr, get_num_free_blocks(free_blocks))
    /\ UNCHANGED <<num_blocks, block_size, free_blocks, token_count, block_table,
                   pc, iter, physical_block_idx>>

\* The history variable: a successful allocate_block adds the id it returned;
\* the history is closed by any other call that changes the pool.
TrackHanded ==
    handed' =
        IF last'.op = "allocate_block"
        THEN IF handed.open /\ last'.err = NoErr
             THEN [handed EXCEPT !.ids = Append(@, last'.ret)]
             ELSE handed
        ELSE IF free_blocks' # free_blocks
             THEN [open |-> FALSE, ids |-> <<>>]
             ELSE handed

Kept == UNCHANGED <<first_free, sim>>

NextPool ==
    \/ \E s \in Seqs : AppendToken(s) /\ TrackHanded /\ Kept
    \/ \E s \in Seqs, n \in 0..MaxAppend : AppendTokens(s, n) /\ TrackHanded /\ Kept
    \/ \E s \in Seqs : FreeAllBlocks(s) /\ TrackHanded /\ Kept
    \/ AllocateBlock /\ TrackHanded /\ Kept
    \/ \E block_index \in -1..num_blocks : FreeBlock(block_index) /\ TrackHanded /\ Kept
    \/ GetNumFreeBlocks /\ TrackHanded /\ Kept

SpecPool == InitDirect /\ [][NextPool]_vars

-----------------------------------------------------------------------------
(* Calls run one at a time, the read-only calls among them *)

GetNumBlocks(s) ==
    /\ last' = Call("get_num_blocks", s, 0, NoErr, get_num_blocks(block_table[s]))
    /\ UNCHANGED <<num_blocks, block_size, free_blocks, token_count, block_table,
                   pc, iter, physical_block_idx>>

\* A plausible slip: the lookup takes the entry out of the table
\* (block_table.pop(logical_block_idx) for block_table[logical_block_idx]).
GetPhysicalBlockPopping(s, token_index) ==
    LET r == get_physical_block(token_count[s], block_table[s], block_size, token_index)
    IN  /\ last' = Call("get_physical_block", s, token_index, r.err, r.ret)
        /\ block_table' =
               [block_table EXCEPT ![s] =
                   IF r.err # NoErr THEN @
                   ELSE SelectSeq(@, LAMBDA e : e.logical # token_index \div block_size)]
        /\ UNCHANGED <<num_blocks, block_size, free_blocks, token_count,
                       pc, iter, physical_block_idx>>

GetPhysicalBlock(s, token_index) ==
    LET r == get_physical_block(token_count[s], block_table[s], block_size, token_index)
    IN  /\ last' = Call("get_physical_block", s, token_index, r.err, r.ret)
        /\ UNCHANGED <<num_blocks, block_size, free_blocks, token_count, block_table,
                       pc, iter, physical_block_idx>>

NextRead ==
    \/ \E s \in Seqs : AppendToken(s) /\ Quiet
    \/ \E s \in Seqs, n \in 0..MaxAppend : AppendTokens(s, n) /\ Quiet
    \/ \E s \in Seqs : FreeAllBlocks(s) /\ Quiet
    \/ GetNumFreeBlocks /\ Quiet
    \/ \E s \in Seqs : GetNumBlocks(s) /\ Quiet
    \/ \E s \in Seqs, token_index \in -1..MaxTokens : GetPhysicalBlock(s, token_index) /\ Quiet

SpecRead == Init /\ [][NextRead]_vars

-----------------------------------------------------------------------------
(* Two sequences on a pool large enough to have free ids that are not neighbours *)

InitFrag ==
    /\ \E bs \in 1..MaxBlockSize : Construct(FragNumBlocks, bs, {1, 2})
    /\ sim = [step |-> "none", i |-> 0]

SpecFrag == InitFrag /\ [][Next]_vars

-----------------------------------------------------------------------------
(* Two sequences, and a caller that also calls the pool directly *)

InitShared ==
    /\ \E nb \in 1..MaxNumBlocks, bs \in 1..MaxBlockSize : Construct(nb, bs, {1, 2})
    /\ sim = [step |-> "none", i |-> 0]

\* A run stops growing the two sequences at MaxTokens tokens together.
Budget == token_count'[1] + token_count'[2] <= MaxTokens

NextShared ==
    \/ \E s \in Seqs : AppendToken(s) /\ Budget /\ Quiet
    \/ \E s \in Seqs : FreeAllBlocks(s) /\ Quiet
    \/ AllocateBlock /\ Quiet
    \/ \E block_index \in -1..num_blocks : FreeBlock(block_index) /\ Quiet

SpecShared == InitShared /\ [][NextShared]_vars

-----------------------------------------------------------------------------
(* One thread per sequence; only the pool's calls are serialized *)

\* append_token up to the call of allocate_block
ConcAppendCheck(s) ==
    /\ pc[s] = "idle"
    /\ token_count[s] < MaxTokens
    /\ IF ~HasKey(block_table[s], token_count[s] \div block_size)
       THEN /\ pc' = [pc EXCEPT ![s] = "allocate"]
            /\ UNCHANGED token_count
       ELSE /\ token_count' = [token_count EXCEPT ![s] = @ + 1]
            /\ UNCHANGED pc
    /\ UNCHANGED <<num_blocks, block_size, free_blocks, block_table, iter,
                   physical_block_idx>>

\* physical_block_idx = manager.allocate_block(), or the exception
ConcAllocate(s) ==
    /\ pc[s] = "allocate"
    /\ LET a == allocate_block(free_blocks)
       IN  IF a.err # NoErr
           THEN /\ pc' = [pc EXCEPT ![s] = "idle"]
                /\ UNCHANGED <<free_blocks, physical_block_idx>>
           ELSE /\ pc' = [pc EXCEPT ![s] = "store"]
                /\ free_blocks' = a.free
                /\ physical_block_idx' = [physical_block_idx EXCEPT ![s] = a.ret]
    /\ UNCHANGED <<num_blocks, block_size, token_count, block_table, iter>>

\* self.block_table[logical_block_idx] = physical_block_idx; self.token_count += 1
ConcStore(s) ==
    /\ pc[s] = "store"
    /\ block_table' = [block_table EXCEPT ![s] =
           DictSet(@, token_count[s] \div block_size, physical_block_idx[s])]
    /\ token_count' = [token_count EXCEPT ![s] = @ + 1]
    /\ physical_block_idx' = [physical_block_idx EXCEPT ![s] = -1]
    /\ pc' = [pc EXCEPT ![s] = "idle"]
    /\ UNCHANGED <<num_blocks, block_size, free_blocks, iter>>

\* free_all_blocks is entered: the loop starts at the table's first value
ConcFreeBegin(s) ==
    /\ pc[s] = "idle"
    /\ pc' = [pc EXCEPT ![s] = "free_loop"]
    /\ iter' = [iter EXCEPT ![s] = 1]
    /\ UNCHANGED <<num_blocks, block_size, free_blocks, token_count, block_table,
                   physical_block_idx>>

\* manager.free_block(physical_block_idx) on the loop's next value
ConcFreeBlock(s) ==
    /\ pc[s] = "free_loop"
    /\ iter[s] <= Len(block_table[s])
    /\ LET r == free_block(free_blocks, num_blocks, block_table[s][iter[s]].physical)
       IN  IF r.err # NoErr
           THEN /\ pc' = [pc EXCEPT ![s] = "idle"]
                /\ iter' = [iter EXCEPT ![s] = 0]
                /\ UNCHANGED free_blocks
           ELSE /\ free_blocks' = r.free
                /\ iter' = [iter EXCEPT ![s] = @ + 1]
                /\ UNCHANGED pc
    /\ UNCHANGED <<num_blocks, block_size, token_count, block_table,
                   physical_block_idx>>

\* self.block_table.clear(); self.token_count = 0
ConcFreeClear(s) ==
    /\ pc[s] = "free_loop"
    /\ iter[s] > Len(block_table[s])
    /\ block_table' = [block_table EXCEPT ![s] = <<>>]
    /\ token_count' = [token_count EXCEPT ![s] = 0]
    /\ pc' = [pc EXCEPT ![s] = "idle"]
    /\ iter' = [iter EXCEPT ![s] = 0]
    /\ UNCHANGED <<num_blocks, block_size, free_blocks, physical_block_idx>>

\* No call is recorded as the last one: the threads' calls overlap.
ConcQuiet == UNCHANGED <<last, first_free, handed, sim>>

NextConc ==
    \/ \E s \in Seqs : ConcAppendCheck(s) /\ ConcQuiet
    \/ \E s \in Seqs : ConcAllocate(s) /\ ConcQuiet
    \/ \E s \in Seqs : ConcStore(s) /\ ConcQuiet
    \/ \E s \in Seqs : ConcFreeBegin(s) /\ ConcQuiet
    \/ \E s \in Seqs : ConcFreeBlock(s) /\ ConcQuiet
    \/ \E s \in Seqs : ConcFreeClear(s) /\ ConcQuiet

SpecConc == Init /\ [][NextConc]_vars

-----------------------------------------------------------------------------
(* main.test_case_2_fragmentation_demo, one append_token per step *)

InitSim ==
    /\ Construct(SimNumBlocks, SimBlockSize, 1..SimNumSeqs)
    /\ sim = [step |-> "seq_1", i |-> 0]

\* seq.append_tokens(manager, n): one turn of its loop.  An exception ends the
\* demo, or is caught where the demo catches it.
SimAppend(step, s, n, caught, next) ==
    /\ sim.step = step
    /\ LET r == append_token(token_count[s], block_table[s], free_blocks, block_size)
       IN  /\ Effect(s, r)
           /\ last' = Call("append_token", s, 1, r.err, -1)
           /\ sim' = IF r.err # NoErr
                     THEN [step |-> IF caught THEN next ELSE "crashed", i |-> 0]
                     ELSE IF sim.i + 1 >= n
                          THEN [step |-> next, i |-> 0]
                          ELSE [step |-> step, i |-> sim.i + 1]

\* seq_1.free_all_blocks(manager)
SimFree(step, s, next) ==
    /\ sim.step = step
    /\ LET r == free_all_blocks(token_count[s], block_table[s], free_blocks, num_blocks)
       IN  /\ Effect(s, r)
           /\ last' = Call("free_all_blocks", s, 0, r.err, -1)
           /\ sim' = [step |-> IF r.err # NoErr THEN "crashed" ELSE next, i |-> 0]

NextSim ==
    \/ SimAppend("seq_1", 1, SimSeq1Tokens, FALSE, "seq_2") /\ UNCHANGED <<first_free, handed>>
    \/ SimAppend("seq_2", 2, SimSeq2Tokens, FALSE, "seq_3") /\ UNCHANGED <<first_free, handed>>
    \/ SimAppend("seq_3", 3, SimSeq3Tokens, TRUE, "free_seq_1") /\ UNCHANGED <<first_free, handed>>
    \/ SimFree("free_seq_1", 1, "seq_3_again") /\ UNCHANGED <<first_free, handed>>
    \/ SimAppend("seq_3_again", 4, SimSeq3Tokens, TRUE, "done") /\ UNCHANGED <<first_free, handed>>

SpecSim == InitSim /\ [][NextSim]_vars

-----------------------------------------------------------------------------
(* Properties of the calls run one at a time *)

\* The items of every block table, as <<sequence, position>> pairs.
Items == UNION {{<<s, i>> : i \in DOMAIN block_table[s]} : s \in Seqs}

FreeOccurrences(id) == Cardinality({i \in DOMAIN free_blocks : free_blocks[i] = id})

MappedOccurrences(id) ==
    Cardinality({x \in Items : block_table[x[1]][x[2]].physical = id})

\* The physical ids a block table references.
PhysicalIds(bt) == {bt[i].physical : i \in DOMAIN bt}

\* Blocks held by the sequences other than s.
OthersBlocks(s) == Cardinality({x \in Items : x[1] # s})

Ceil(a, b) == (a + b - 1) \div b

\* C1: every block id in [0, num_blocks) is in exactly one place: once in the
\* free list, or under exactly one logical index of exactly one block table.
C1_ExactlyOnePlace ==
    \A id \in 0..(num_blocks - 1) : FreeOccurrences(id) + MappedOccurrences(id) = 1

\* The free list is no longer in the order of construction: blocks came back.
Recycled == \E i, j \in DOMAIN free_blocks : i < j /\ free_blocks[i] > free_blocks[j]

\* Sequence s holds a block that was allocated after a block that is free
\* now (a fresh pool hands out the highest id first): that block came back.
ReleasedBeside(s) ==
    \E i \in DOMAIN free_blocks, id \in PhysicalIds(block_table[s]) :
        free_blocks[i] > id

\* C1 witness: one sequence has just released the blocks it held while
\* another one holds blocks.
C1_Witness ==
    \E s1, s2 \in Seqs :
        /\ s1 # s2
        /\ block_table[s1] # <<>>
        /\ last.op = "free_all_blocks" /\ last.seq = s2 /\ last.err = NoErr
        /\ ReleasedBeside(s1)

\* C5: a failing append_token changes neither token_count, block_table nor
\* free_blocks, and it fails whenever a block is needed and none is free; a
\* successful one adds exactly 1 to token_count and at most one table entry.
C5_AppendTokenAtomic ==
    [][\A s \in Seqs :
        (last'.op = "append_token" /\ last'.seq = s) =>
            LET needs == ~HasKey(block_table[s], token_count[s] \div block_size)
            IN  /\ (needs /\ free_blocks = <<>>) => last'.err = OutOfBlocks
                /\ last'.err # NoErr =>
                       /\ token_count' = token_count
                       /\ block_table' = block_table
                       /\ free_blocks' = free_blocks
                /\ last'.err = NoErr =>
                       /\ token_count'[s] = token_count[s] + 1
                       /\ Len(block_table'[s]) - Len(block_table[s]) \in {0, 1}
                       /\ \A i \in DOMAIN block_table[s] :
                              block_table'[s][i] = block_table[s][i]
                       /\ Len(block_table'[s]) = Len(block_table[s]) + 1 <=> needs
      ]_vars

\* C5 witness: an append_token has just failed on an exhausted pool.
C5_Witness ==
    /\ last.op = "append_token" /\ last.err = OutOfBlocks
    /\ free_blocks = <<>>
    /\ token_count[last.seq] > 0

\* C7: block_count() == ceil(token_count / block_size) for every sequence.
C7_BlockCountIsCeil ==
    \A s \in Seqs : get_num_blocks(block_table[s]) = Ceil(token_count[s], block_size)

\* C7 witness: an append_tokens has just failed part-way, keeping the tokens
\* it appended, and another sequence holds a partly filled block.
C7_Witness ==
    /\ last.op = "append_tokens" /\ last.err = OutOfBlocks
    /\ token_count[last.seq] > 0
    /\ \E s \in Seqs :
          s # last.seq /\ token_count[s] % block_size # 0

\* The id the r-th allocate_block call in a row returns.
RECURSIVE NthAllocated(_, _)
NthAllocated(fb, r) ==
    IF r <= 1 THEN allocate_block(fb).ret
    ELSE NthAllocated(allocate_block(fb).free, r - 1)

\* C8: get_physical_block(k), 0 <= k < token_count, returns offset k mod
\* block_size in the physical block that allocate_block returned when the
\* logical block k div block_size was added, and a table entry never changes
\* until the sequence's free_all_blocks succeeds.
C8_TranslateStable ==
    [][\A s \in Seqs :
        LET bt == block_table[s]
            bt2 == block_table'[s]
            released == last'.op = "free_all_blocks" /\ last'.seq = s
                        /\ last'.err = NoErr
        IN  /\ ~released =>
                  /\ Len(bt) <= Len(bt2)
                  /\ \A i \in DOMAIN bt : bt2[i] = bt[i]
                  /\ \A i \in (Len(bt) + 1)..Len(bt2) :
                        bt2[i].physical = NthAllocated(free_blocks, i - Len(bt))
            /\ \A k \in 0..(token_count'[s] - 1) :
                  LET g == get_physical_block(token_count'[s], bt2, block_size, k)
                  IN  /\ g.err = NoErr
                      /\ g.ret[2] = k % block_size
                      /\ \E i \in DOMAIN bt2 :
                            /\ bt2[i].logical = k \div block_size
                            /\ bt2[i].physical = g.ret[1]
                            /\ \A j \in DOMAIN bt2 : bt2[j].logical = bt2[i].logical => j = i
      ]_vars

\* C8 witness: a sequence has just appended the token that fills its second
\* block, a block another sequence held and released in between, and its
\* last token translates into that block.
C8_Witness ==
    \E s1 \in Seqs :
        /\ last.op = "append_token" /\ last.seq = s1 /\ last.err = NoErr
        /\ Len(block_table[s1]) = 2
        /\ token_count[s1] = 2 * block_size
        /\ block_table[s1][1].physical < block_table[s1][2].physical
        /\ get_physical_block(token_count[s1], block_table[s1], block_size,
                              token_count[s1] - 1).ret
               = <<block_table[s1][2].physical, block_size - 1>>

\* C9 as stated: after a successful free_all_blocks the free count is the one
\* the pool had before the sequence's first allocation, and block_count() is 0.
C9_Original ==
    [][\A s \in Seqs :
        (last'.op = "free_all_blocks" /\ last'.seq = s /\ last'.err = NoErr
         /\ first_free[s] # -1) =>
            /\ get_num_free_blocks(free_blocks') = first_free[s]
            /\ get_num_blocks(block_table'[s]) = 0
      ]_vars

\* C9 amended: a successful free_all_blocks empties the table and adds exactly
\* the sequence's blocks to the free list; the free count is then the one
\* before the sequence's first allocation whenever the other sequences hold as
\* many blocks as they held at that moment.
C9_Amended ==
    [][\A s \in Seqs :
        (last'.op = "free_all_blocks" /\ last'.seq = s /\ last'.err = NoErr) =>
            /\ get_num_blocks(block_table'[s]) = 0
            /\ get_num_free_blocks(free_blocks')
                   = get_num_free_blocks(free_blocks) + get_num_blocks(block_table[s])
            /\ (first_free[s] # -1 /\ OthersBlocks(s) = num_blocks - first_free[s])
                   => get_num_free_blocks(free_blocks') = first_free[s]
      ]_vars

\* C9 witness: a sequence has just released the blocks it held while another
\* sequence, which allocated after it, holds some.
C9_Witness ==
    /\ last.op = "free_all_blocks" /\ last.err = NoErr
    /\ first_free[last.seq] = -1
    /\ \E s \in Seqs :
          s # last.seq /\ first_free[s] # -1 /\ ReleasedBeside(s)

-----------------------------------------------------------------------------
(* Properties of the demo, of direct pool calls and of interleaved threads *)

\* C2: in the demo, the free count is 60 right after seq_1.free_all_blocks.
C2_FreeCountSixty ==
    (sim.step = "seq_3_again" /\ sim.i = 0) => get_num_free_blocks(free_blocks) = 60

\* C3: after a free_all_blocks that raised, no id of the sequence's table is
\* in the free list.
C3_FailedReleaseKeepsOnlyOwned ==
    (last.op = "free_all_blocks" /\ last.err # NoErr) =>
        \A id \in PhysicalIds(block_table[last.seq]) : ~InList(free_blocks, id)

\* C4: after a free_all_blocks that raised, every id of the sequence's table
\* is in the free list, or the next free_all_blocks of the sequence puts it there.
C4_FailedReleaseLeaksNothing ==
    (last.op = "free_all_blocks" /\ last.err # NoErr) =>
        LET s == last.seq
            again == free_all_blocks(token_count[s], block_table[s], free_blocks,
                                     num_blocks)
        IN  \A id \in PhysicalIds(block_table[s]) :
                InList(free_blocks, id) \/ InList(again.free, id)

\* C6: no physical block id is in the block tables of two sequences.
C6_NoSharedBlock ==
    \A s1, s2 \in Seqs :
        s1 # s2 => PhysicalIds(block_table[s1]) \cap PhysicalIds(block_table[s2]) = {}

\* C10: free_block with an id out of range or already free raises (invalid
\* index, already free) and leaves the free list as it was.
C10_BadReleaseFails ==
    [][last'.op = "free_block" =>
        LET id == last'.arg
        IN  /\ (id < 0 \/ id >= num_blocks) =>
                  last'.err = InvalidBlockId /\ free_blocks' = free_blocks
            /\ (id >= 0 /\ id < num_blocks /\ InList(free_blocks, id)) =>
                  last'.err = DoubleFree /\ free_blocks' = free_blocks
            /\ last'.err # NoErr =>
                  /\ (id < 0 \/ id >= num_blocks \/ InList(free_blocks, id))
                  /\ free_blocks' = free_blocks
      ]_vars

\* C10 witness: a block that a sequence released is released again, directly,
\* and the call has raised.
C10_Witness ==
    /\ last.op = "free_block" /\ last.err = DoubleFree
    /\ InList(free_blocks, last.arg)
    /\ Recycled
    /\ \E s \in Seqs : block_table[s] # <<>>

-----------------------------------------------------------------------------
(* C11 *)

\* The elements of a list.
Elems(xs) == {xs[i] : i \in DOMAIN xs}

\* While the pool has only served allocate_block calls since construction:
\* the ids handed out and the free ids split 0..num_blocks-1 between them.
HandedSplitsPool ==
    handed.open =>
        /\ get_num_free_blocks(free_blocks) + Len(handed.ids) = num_blocks
        /\ \A i, j \in 1..Len(handed.ids) : i # j => handed.ids[i] # handed.ids[j]
        /\ Elems(handed.ids) \cup Elems(free_blocks) = 0..(num_blocks - 1)
        /\ Elems(handed.ids) \cap Elems(free_blocks) = {}

\* An allocate_block call on such a pool succeeds exactly when fewer than
\* num_blocks ids are out; the failing call finds and leaves the pool empty.
AllocateUntilEmpty ==
    (handed.open /\ last'.op = "allocate_block") =>
        /\ last'.err = NoErr <=> Len(handed.ids) < num_blocks
        /\ last'.err # NoErr =>
               /\ last'.err = OutOfBlocks
               /\ get_num_free_blocks(free_blocks) = 0
               /\ free_blocks' = free_blocks

\* C11: a new pool of N blocks has N free; the first N allocate_block calls
\* in a row succeed and return every id of 0..N-1 once; the next one raises
\* the out-of-blocks error with nothing free and leaves the free list as it is.
C11_AllocateExactlyN ==
    /\ (handed.open /\ handed.ids = <<>>) => get_num_free_blocks(free_blocks) = num_blocks
    /\ [](HandedSplitsPool)
    /\ [][AllocateUntilEmpty]_vars

C11_Witness ==
    /\ handed.open
    /\ num_blocks >= 2
    /\ Len(handed.ids) = num_blocks
    /\ last.op = "allocate_block"
    /\ last.err = OutOfBlocks
    /\ free_blocks = <<>>

-----------------------------------------------------------------------------
(* C12 *)

\* The new blocks num_tokens more tokens need.
BlocksNeeded(tc, bt, bs, num_tokens) == Ceil(tc + num_tokens, bs) - Len(bt)

\* C12: an append_tokens call whose tokens need more new blocks than are free
\* raises the out-of-blocks error and keeps what it did before: the old table
\* entries, one new entry for every block that was free, an empty free list,
\* and a token count that fills every block of the table.
C12_PartialProgressKept ==
    \A s \in Seqs, n \in 0..MaxAppend :
        LET tc == token_count[s]
            bt == block_table[s]
            f  == get_num_free_blocks(free_blocks)
            r  == append_tokens(tc, bt, free_blocks, block_size, n)
        IN  BlocksNeeded(tc, bt, block_size, n) > f =>
                /\ r.err = OutOfBlocks
                /\ r.tc >= tc
                /\ r.tc < tc + n
                /\ get_num_blocks(r.bt) = get_num_blocks(bt) + f
                /\ \A i \in DOMAIN bt : r.bt[i] = bt[i]
                /\ {r.bt[i].physical : i \in (Len(bt) + 1)..Len(r.bt)} = Elems(free_blocks)
                /\ get_num_free_blocks(r.free) = 0
                /\ r.tc = get_num_blocks(r.bt) * block_size

\* C12 witness: an append_tokens call has just failed after taking the last
\* free block and counting tokens into it.
C12_Witness ==
    /\ last.op = "append_tokens" /\ last.err = OutOfBlocks
    /\ free_blocks = <<>>
    /\ token_count[last.seq] = get_num_blocks(block_table[last.seq]) * block_size
    /\ token_count[last.seq] > 0
    /\ last.arg > 1
    /\ \E s \in Seqs : s # last.seq /\ token_count[s] > 0

-----------------------------------------------------------------------------
(* C13 *)

\* C13: in every reachable state, whatever ids are free, an append_token whose
\* token opens a new logical block succeeds exactly when a block is free, and
\* an append_tokens succeeds exactly when at least as many blocks are free as
\* its tokens need.
C13_SuccessByFreeCount ==
    \A s \in Seqs :
        LET tc == token_count[s]
            bt == block_table[s]
            f  == get_num_free_blocks(free_blocks)
        IN  /\ ~HasKey(bt, tc \div block_size) =>
                   (append_token(tc, bt, free_blocks, block_size).err = NoErr <=> f > 0)
            /\ \A n \in 0..MaxAppend :
                   append_tokens(tc, bt, free_blocks, block_size, n).err = NoErr
                       <=> f >= BlocksNeeded(tc, bt, block_size, n)

\* C13 witness: an append_tokens call has just succeeded by taking two free
\* blocks whose ids are not neighbours.
C13_Witness ==
    /\ last.op = "append_tokens" /\ last.err = NoErr
    /\ LET bt == block_table[last.seq]
       IN  /\ Len(bt) >= 2
           /\ last.arg >= block_size + 1
           /\ bt[Len(bt)].physical - bt[Len(bt) - 1].physical \notin {-1, 1}
    /\ \E s \in Seqs : s # last.seq /\ block_table[s] # <<>>

-----------------------------------------------------------------------------
(* C14 *)

\* The physical ids of a block table, in the order of its entries.
PhysicalList(bt) == [i \in DOMAIN bt |-> bt[i].physical]

\* C14: when sequences get blocks only by their own appends, free_all_blocks
\* succeeds in every reachable state of a sequence: it puts every block of the
\* table back on the free list, empties the table and sets token_count to 0,
\* and with an empty table it leaves the free list as it is.
C14_ReleaseAllAlwaysSafe ==
    \A s \in Seqs :
        LET bt == block_table[s]
            r  == free_all_blocks(token_count[s], bt, free_blocks, num_blocks)
        IN  /\ r.err = NoErr
            /\ r.bt = <<>>
            /\ r.tc = 0
            /\ r.free = free_blocks \o PhysicalList(bt)
            /\ get_num_free_blocks(r.free) = get_num_free_blocks(free_blocks) + get_num_blocks(bt)
            /\ bt = <<>> => r.free = free_blocks

\* C14 witness: a sequence has just released its blocks, which are back on
\* the free list behind a higher id, while another sequence holds a block.
C14_Witness ==
    /\ last.op = "free_all_blocks" /\ last.err = NoErr
    /\ block_table[last.seq] = <<>> /\ token_count[last.seq] = 0
    /\ \E i \in DOMAIN free_blocks : i < Len(free_blocks) /\ free_blocks[i] > free_blocks[i + 1]
    /\ \E s \in Seqs : s # last.seq /\ block_table[s] # <<>>

-----------------------------------------------------------------------------
(* C15 *)

\* get_physical_block raises the token-index error exactly for the indices
\* outside 0..token_count-1.
RangeErrorExact ==
    \A s \in Seqs, k \in -1..MaxTokens :
        get_physical_block(token_count[s], block_table[s], block_size, k).err
                = TokenIndexOutOfRange
            <=> (k < 0 \/ k >= token_count[s])

\* After a free_all_blocks call of sequence s, get_physical_block returns none
\* of the ids that call put on the free list.
NoReleasedIdReturned ==
    \A s \in Seqs :
        (last'.op = "free_all_blocks" /\ last'.seq = s) =>
            \A k \in 0..MaxTokens :
                LET g == get_physical_block(token_count'[s], block_table'[s], block_size, k)
                IN  g.err = NoErr =>
                        g.ret[1] \notin (Elems(free_blocks') \ Elems(free_blocks))

\* C15: get_physical_block raises the token-index error exactly when the index
\* is negative or not below token_count, and after free_all_blocks it never
\* returns a physical id that the sequence has released.
C15_TranslateNeverReleased ==
    /\ [](RangeErrorExact)
    /\ [][NoReleasedIdReturned]_vars

-----------------------------------------------------------------------------
(* C16 *)

\* C16: a get_num_free_blocks, get_num_blocks or get_physical_block call, with
\* any argument and whether it returns or raises, leaves the free list and
\* every sequence's token_count and block table as they were.
C16_ReadsChangeNothing ==
    [][last'.op \in {"get_num_free_blocks", "get_num_blocks", "get_physical_block"} =>
           /\ free_blocks' = free_blocks
           /\ token_count' = token_count
           /\ block_table' = block_table
           /\ num_blocks' = num_blocks
           /\ block_size' = block_size
      ]_vars

\* C16 witness: a get_physical_block call has just returned a block of a
\* sequence that shares the pool with another one.
C16_Witness ==
    /\ last.op = "get_physical_block" /\ last.err = NoErr
    /\ last.arg > 0
    /\ last.ret[1] \in PhysicalIds(block_table[last.seq])
    /\ \E s \in Seqs : s # last.seq /\ block_table[s] # <<>>

-----------------------------------------------------------------------------
(* C17 *)

\* The logical indices of a block table.
LogicalIds(bt) == {bt[i].logical : i \in DOMAIN bt}

\* C17: the logical indices of a sequence's table are exactly
\* 0..ceil(token_count / block_size)-1, each once, and get_physical_block(k)
\* with 0 <= k < token_count never raises the logical-block-not-found error.
C17_LogicalIndicesDense ==
    \A s \in Seqs :
        /\ LogicalIds(block_table[s]) = 0..(Ceil(token_count[s], block_size) - 1)
        /\ Cardinality(LogicalIds(block_table[s])) = Len(block_table[s])
        /\ \A k \in 0..(token_count[s] - 1) :
               get_physical_block(token_count[s], block_table[s], block_size, k).err = NoErr

\* C17 witness: a sequence with two blocks, the second one partly filled,
\* whose free_all_blocks has just failed.
C17_Witness ==
    /\ last.op = "free_all_blocks" /\ last.err # NoErr
    /\ Len(block_table[last.seq]) >= 2
    /\ token_count[last.seq] % block_size # 0

-----------------------------------------------------------------------------
(* C18 *)

\* What one call does to the token count of sequence s.
TokenCountStep(s) ==
    /\ token_count'[s] < token_count[s] =>
           /\ last'.op = "free_all_blocks" /\ last'.seq = s /\ last'.err = NoErr
           /\ token_count'[s] = 0
    /\ (last'.op = "append_token" /\ last'.seq = s) =>
           token_count'[s] = IF last'.err = NoErr THEN token_count[s] + 1
                             ELSE token_count[s]
    /\ (last'.op = "free_all_blocks" /\ last'.seq = s) =>
           token_count'[s] = IF last'.err = NoErr THEN 0 ELSE token_count[s]
    /\ last'.seq # s => token_count'[s] = token_count[s]

\* C18: token_count starts at 0; a successful append_token adds exactly 1; only
\* a successful free_all_blocks of the sequence lowers it, to 0; a failing
\* append_token, a failing free_all_blocks and every call on another sequence
\* or on the pool leave it as it is.
C18_TokenCountMonotone ==
    /\ \A s \in Seqs : token_count[s] = 0
    /\ [][\A s \in Seqs : TokenCountStep(s)]_vars

\* C18 witness: a free_all_blocks has just failed on a sequence that keeps its
\* tokens, while the other sequence has tokens too.
C18_Witness ==
    /\ last.op = "free_all_blocks" /\ last.err # NoErr
    /\ token_count[last.seq] > 1
    /\ \E s \in Seqs : s # last.seq /\ token_count[s] > 0

-----------------------------------------------------------------------------
(* C19 *)

\* C19: after any run of allocate_block and free_block calls, failing ones and
\* ones with ids out of range included, the free list holds no id twice, only
\* ids of 0..num_blocks-1, and at most num_blocks of them.
C19_FreeListUnique ==
    /\ \A i, j \in DOMAIN free_blocks : i # j => free_blocks[i] # free_blocks[j]
    /\ \A i \in DOMAIN free_blocks : free_blocks[i] >= 0 /\ free_blocks[i] < num_blocks
    /\ get_num_free_blocks(free_blocks) <= num_blocks

\* C19 witness: free_block has just refused the id num_blocks on a pool whose
\* blocks were all handed out and released again.
C19_Witness ==
    /\ last.op = "free_block" /\ last.err = InvalidBlockId /\ last.arg = num_blocks
    /\ get_num_free_blocks(free_blocks) = num_blocks
    /\ Recycled

-----------------------------------------------------------------------------
(* C20 *)

\* The highest logical index of a non-empty block table.
TopLogical(bt) == CHOOSE l \in LogicalIds(bt) : \A m \in LogicalIds(bt) : m <= l

\* A successful allocate_block returns the last element of the free list and
\* removes it; the allocation after a successful free_all_blocks of a sequence
\* with blocks returns the block of its highest logical index.
LastInFirstOut ==
    /\ (last'.op = "allocate_block" /\ last'.err = NoErr) =>
           /\ last'.ret = free_blocks[Len(free_blocks)]
           /\ free_blocks' = SubSeq(free_blocks, 1, Len(free_blocks) - 1)
    /\ \A s \in Seqs :
           (/\ last'.op = "free_all_blocks" /\ last'.seq = s /\ last'.err = NoErr
            /\ block_table[s] # <<>>) =>
               /\ allocate_block(free_blocks').err = NoErr
               /\ allocate_block(free_blocks').ret =
                      DictGet(block_table[s], TopLogical(block_table[s]))

\* C20: allocate_block returns the last element of the free list: a new pool
\* of N blocks hands out N-1, N-2, ..., 0; after a successful free_block(id)
\* the next allocate_block returns id; after free_all_blocks of a sequence the
\* next allocation returns the block of the sequence's highest logical index.
C20_AllocationIsLifo ==
    /\ [](handed.open => \A i \in 1..Len(handed.ids) : handed.ids[i] = num_blocks - i)
    /\ []((last.op = "free_block" /\ last.err = NoErr) =>
              /\ allocate_block(free_blocks).err = NoErr
              /\ allocate_block(free_blocks).ret = last.arg)
    /\ [][LastInFirstOut]_vars

\* C20 witness: allocate_block has just returned the id that was released
\* last, a lower id than the one still free.
C20_Witness ==
    /\ last.op = "allocate_block" /\ last.err = NoErr
    /\ ~handed.open
    /\ free_blocks # <<>>
    /\ last.ret < free_blocks[Len(free_blocks)]

====
